---- MODULE Spec2Model ----
(***************************************************************************)
(* route_pad_array (src/pp/routing/route_pad_array.py): one call of the    *)
(* function, stepped through its statements.                               *)
(*                                                                         *)
(* Numbers.  The code computes with Python floats.  Here every length is   *)
(* an exact fixed-point integer; call arguments are whole numbers:         *)
(*   x_c, y0_optical      tenths             (round(..., 1) keeps tenths)  *)
(*   offset, pad x        twentieths         ((nb - 1) * io_sep / 2)       *)
(*   y_sep, pad y         1 / (10 * n_ports) (K / n_ports)                 *)
(***************************************************************************)
EXTENDS Integers, Sequences, FiniteSets, Bags, TLC

VARIABLES
    args,               \* the call's arguments, as the caller passed them
    call,               \* 1 for the first call, 2 for the repeated one
    prev,               \* arguments and outcome of the first call
    pc,                 \* the statement the call is at
    status,             \* "running", "returned" or the exception raised
    raised_at,          \* source line of the raise, 0 when none
    ret,                \* the returned triple
    ports,              \* line 77
    N,                  \* line 78
    pad_calls,          \* number of calls of the pad factory (line 83)
    pads,               \* lines 84, 147
    x_c,                \* line 90
    y0_optical,         \* lines 106-111
    ordered_ports,      \* lines 131, 159
    nb_ports_per_line,  \* line 133
    y_sep,              \* line 136
    offset,             \* line 138
    pad_indices,        \* lines 142
    j,                  \* loop variable of line 146
    ref_calls,          \* number of calls of pad.ref (line 148)
    io_pad_lines,       \* lines 139, 156
    row,                \* position of the loop of line 161 in io_pad_lines
    i,                  \* loop variable of line 162
    elements            \* lines 82, 166

vars == <<args, call, prev, pc, status, raised_at, ret, ports, N, pad_calls,
          pads, x_c, y0_optical, ordered_ports, nb_ports_per_line, y_sep,
          offset, pad_indices, j, ref_calls, io_pad_lines, row, i, elements>>

(***************************************************************************)
(* Bounds of the model.                                                    *)
(***************************************************************************)
MaxLabels == 2      \* longest explicit port_labels list
MaxRows == 2        \* largest n_ports
MaxSlot == 2        \* largest pad slot index in pad_indices
MaxOverride == 2    \* longest connected_port_list_ids list

(***************************************************************************)
(* Defaults of the signature.                                              *)
(***************************************************************************)
DefaultPadSpacing == 150        \* pad_spacing
DefaultFanoutLength == 20       \* fanout_length
DefaultStraightSeparation == 4  \* straight_separation
DefaultBendRadiusTenths == 1    \* bend_radius = 0.1
DefaultXPadOffset == 0          \* x_pad_offset

(***************************************************************************)
(* The collaborators: a device with ports on its four sides, and a pad.    *)
(***************************************************************************)
Port(name, side, x, y, type) ==
    [name |-> name, side |-> side, x |-> x, y |-> y, port_type |-> type]

\* component.ports in the mapping's iteration order
ComponentPorts ==
    << Port("n3", "N", 5, 10, "dc"),    Port("e2", "E", 30, 7, "dc"),
       Port("w1", "W", -30, -4, "dc"),  Port("s2", "S", 12, -10, "dc"),
       Port("n1", "N", -20, 10, "dc"),  Port("o1", "N", 0, 10, "optical"),
       Port("w2", "W", -30, 6, "dc"),   Port("n4", "N", 21, 10, "dc"),
       Port("e1", "E", 30, -3, "dc"),   Port("s1", "S", -10, -10, "dc"),
       Port("n2", "N", -7, 10, "dc") >>

PortNames == {ComponentPorts[k].name : k \in 1..Len(ComponentPorts)}

\* component.ports[name]
PortOf(name) ==
    ComponentPorts[CHOOSE k \in 1..Len(ComponentPorts) : ComponentPorts[k].name = name]

\* component.ymin
ComponentYMin == -10

\* the pad component: pad.ports[port_name].x and pad.size_info.height
PadComponent == [port_x |-> 50, height |-> 100]

Reverse(s) == [k \in 1..Len(s) |-> s[Len(s) + 1 - k]]

RECURSIVE SumX(_)
SumX(s) == IF s = <<>> THEN 0 ELSE Head(s).x + SumX(Tail(s))

Min(a, b) == IF a <= b THEN a ELSE b


(***************************************************************************)
(* round(num / den, 1) in tenths, den > 0: the nearest tenth, a tie going  *)
(* to the even one (Python's round; the ties the bounds allow are exact    *)
(* binary fractions).                                                      *)
(***************************************************************************)
RoundTenths(num, den) ==
    LET q == (10 * num) \div den
        r == (10 * num) % den
    IN  IF 2 * r < den THEN q
        ELSE IF 2 * r > den THEN q + 1
        ELSE IF q % 2 = 0 THEN q ELSE q + 1

(***************************************************************************)
(* pp.port.select_electrical_ports and                                     *)
(* pp.routing.utils.direction_ports_from_list_ports are not part of the    *)
(* sources at hand; they follow the specification (sections 4.1, 4.2, 6).  *)
(***************************************************************************)
\* the electrical ports of the mapping, in its iteration order
select_ports(all) == SelectSeq(all, LAMBDA p : p.port_type = "dc")

SortKey(p, byX) == IF byX THEN p.x ELSE p.y

\* p put after the last element of the sorted s whose key is not larger
InsertByKey(s, p, byX) ==
    LET k == Cardinality({m \in 1..Len(s) : SortKey(s[m], byX) <= SortKey(p, byX)})
    IN  SubSeq(s, 1, k) \o <<p>> \o SubSeq(s, k + 1, Len(s))

RECURSIVE SortByKey(_, _)
SortByKey(s, byX) ==
    IF s = <<>> THEN <<>>
    ELSE InsertByKey(SortByKey(SubSeq(s, 1, Len(s) - 1), byX), s[Len(s)], byX)

\* buckets by side: north and south left to right, east and west bottom to top
direction_ports_from_list_ports(ps) ==
    [N |-> SortByKey(SelectSeq(ps, LAMBDA p : p.side = "N"), TRUE),
     S |-> SortByKey(SelectSeq(ps, LAMBDA p : p.side = "S"), TRUE),
     E |-> SortByKey(SelectSeq(ps, LAMBDA p : p.side = "E"), FALSE),
     W |-> SortByKey(SelectSeq(ps, LAMBDA p : p.side = "W"), FALSE)]

(***************************************************************************)
(* The statements of route_pad_array, as operators.                        *)
(***************************************************************************)
\* line 75: every label is a key of component.ports
LabelsKnown(labels) == \A k \in 1..Len(labels) : labels[k] \in PortNames

\* lines 72-75
SelectedPorts(port_labels) ==
    IF port_labels.given
    THEN [k \in 1..Len(port_labels.val) |-> PortOf(port_labels.val[k])]
    ELSE select_ports(ComponentPorts)

\* line 77
FilterPorts(ps, excluded) == SelectSeq(ps, LAMBDA p : p.name \notin excluded)

\* variant of NoPorts: the test of line 79 dropped
NoPortsNever(n) == FALSE

\* line 79
NoPorts(n) == n = 0

\* the pad component itself, as an element of pads (line 84)
PadPrototype == [ref |-> FALSE, x |-> 0, y |-> 0]

\* line 90, tenths
XCenter(ps, n) == RoundTenths(SumX(ps), n)

\* lines 97-98
KOf(n) == IF n % 2 = 1 THEN n + 1 ELSE n

\* lines 106-111, tenths; K is even, so K / 2 is whole
Y0Optical(K, fanout_length, sep, max_y0_optical) ==
    LET y0 == RoundTenths(ComponentYMin - fanout_length - PadComponent.port_x
                          - (K \div 2) * sep, 1)
    IN  IF max_y0_optical.given
        THEN RoundTenths(Min(10 * max_y0_optical.val, y0), 10)
        ELSE y0

\* variant of OrderedPorts: north_ports where line 131 has north_finish
OrderedPortsNorthTwice(dp) ==
    LET north_ports == dp.N
        north_start == SubSeq(north_ports, 1, Len(north_ports) \div 2)
    IN  Reverse(north_start) \o Reverse(dp.W) \o dp.S \o dp.E \o Reverse(north_ports)

\* variant of OrderedPorts: line 126 (west_ports.reverse()) dropped
OrderedPortsWestAsSorted(dp) ==
    LET north_ports == dp.N
        north_start == SubSeq(north_ports, 1, Len(north_ports) \div 2)
        north_finish == SubSeq(north_ports, Len(north_ports) \div 2 + 1, Len(north_ports))
    IN  Reverse(north_start) \o dp.W \o dp.S \o dp.E \o Reverse(north_finish)

\* lines 121-131
OrderedPorts(dp) ==
    LET north_ports == dp.N
        north_start == SubSeq(north_ports, 1, Len(north_ports) \div 2)
        north_finish == SubSeq(north_ports, Len(north_ports) \div 2 + 1, Len(north_ports))
        west_ports == Reverse(dp.W)
        east_ports == dp.E
        south_ports == dp.S
    IN  Reverse(north_start) \o west_ports \o south_ports \o east_ports
            \o Reverse(north_finish)

\* line 133
NbPortsPerLine(n, n_ports) == n \div n_ports

\* lines 135-136, in units of 1 / (10 * n_ports)
YSep(K, n_ports, sep, bend_radius_tenths) ==
    10 * n_ports * PadComponent.height + 10 * (K + n_ports) * sep
        + n_ports * bend_radius_tenths

\* line 138, twentieths
Offset(nb, io_sep, x_pad_offset) == 10 * (nb - 1) * io_sep - 20 * x_pad_offset

\* variant of DefaultPadIndices: range(1, nb + 1)
PadIndicesFromOne(nb) == [k \in 1..nb |-> k]

\* line 142
DefaultPadIndices(nb) == [k \in 1..nb |-> k - 1]

\* variant of PadIndicesAccepted: the assert of line 144 dropped
PadIndicesAnyLength(indices, nb) == TRUE

\* line 144
PadIndicesAccepted(indices, nb) == Len(indices) = nb

\* variant of PadX: x_c + offset
PadXOffsetAdded(xc, off, slot, io_sep) == 2 * xc + off + 20 * slot * io_sep

\* line 149, x in twentieths
PadX(xc, off, slot, io_sep) == 2 * xc - off + 20 * slot * io_sep

\* line 149, y in units of 1 / (10 * n_ports)
PadY(y0, jj, ysep, n_ports) == n_ports * y0 - jj * ysep

\* lines 147-154: one pad.ref per pair of zip(pad_indices, pads)
PadRow(indices, ps, xc, off, io_sep, y0, jj, ysep, n_ports) ==
    [k \in 1..Min(Len(indices), Len(ps)) |->
        [ref |-> TRUE,
         x |-> PadX(xc, off, indices[k], io_sep),
         y |-> PadY(y0, jj, ysep, n_ports)]]

\* line 159: every id is a key of component.ports
IdsKnown(ids) == \A k \in 1..Len(ids) : ids[k] \in PortNames

\* variant of LookupPorts: an id that is not among the selected ports falls
\* back to the first selected port
LookupAmongSelected(ids, ps) ==
    [k \in 1..Len(ids) |->
        IF \E m \in 1..Len(ps) : ps[m].name = ids[k]
        THEN PortOf(ids[k]) ELSE ps[1]]

\* line 159
LookupPorts(ids, ps) == [k \in 1..Len(ids) |-> PortOf(ids[k])]

\* lines 163-166: the route constructor's references, one reference per route
RouteOf(p1, p0) == [p1 |-> p1, p0 |-> p0]


(***************************************************************************)
(* The arguments a call is made with.  An optional argument is a record:   *)
(* given = FALSE stands for None.  connected_port_list_ids = <<>> stands   *)
(* for None and for the empty list, which line 158 treats alike.           *)
(* ref_has_ref is the collaborator's side of line 148 in a second row:     *)
(* whether a placed pad reference offers ref() as the pad component does.  *)
(***************************************************************************)
None == [given |-> FALSE, val |-> <<>>]

Some(v) == [given |-> TRUE, val |-> v]

SeqsUpTo(S, n) == UNION {[1..m -> S] : m \in 0..n}

\* strictly increasing slot lists such as [0, 1, 4, 5] of the docstring
RECURSIVE Ascending(_)
Ascending(S) ==
    IF S = {} THEN <<>>
    ELSE LET m == CHOOSE a \in S : \A b \in S : a <= b
         IN  <<m>> \o Ascending(S \ {m})

LabelNames == {"n1", "w1", "zz"}
OverrideNames == {"s1", "o1", "zz"}

PortLabelsChoices == {None} \cup {Some(l) : l \in SeqsUpTo(LabelNames, MaxLabels)}
ExcludedChoices == {{}, {"n1"}}
PadIndicesChoices == {None} \cup {Some(Ascending(S)) : S \in SUBSET (0..MaxSlot)}
OverrideChoices == SeqsUpTo(OverrideNames, MaxOverride)

NoResult == [elements |-> <<>>, pads |-> <<>>, y0 |-> 0]

NoPrev == [args |-> <<>>, status |-> "none", raised_at |-> 0, ret |-> NoResult,
           elements |-> <<>>, io_pad_lines |-> <<>>, ref_calls |-> 0]

\* the state at the entry of route_pad_array
Entry ==
    /\ pc = "select"
    /\ status = "running"
    /\ raised_at = 0
    /\ ret = NoResult
    /\ ports = <<>>
    /\ N = 0
    /\ pad_calls = 0
    /\ pads = <<>>
    /\ x_c = 0
    /\ y0_optical = 0
    /\ ordered_ports = <<>>
    /\ nb_ports_per_line = 0
    /\ y_sep = 0
    /\ offset = 0
    /\ pad_indices = <<>>
    /\ j = 0
    /\ ref_calls = 0
    /\ io_pad_lines = <<>>
    /\ row = 0
    /\ i = 0
    /\ elements = <<>>

\* calls with the default geometry: selection, rows, slots and override vary
Init ==
    /\ args \in [port_labels : PortLabelsChoices,
                 excluded_ports : ExcludedChoices,
                 n_ports : 1..MaxRows,
                 pad_indices : PadIndicesChoices,
                 connected_port_list_ids : OverrideChoices,
                 pad_spacing : {DefaultPadSpacing},
                 x_pad_offset : {DefaultXPadOffset},
                 max_y0_optical : {None},
                 pad_is_factory : {TRUE},
                 ref_has_ref : BOOLEAN]
    /\ call = 1
    /\ prev = NoPrev
    /\ Entry

locals == <<ports, N, pad_calls, pads, x_c, y0_optical, ordered_ports,
            nb_ports_per_line, y_sep, offset, pad_indices, j, ref_calls,
            io_pad_lines, row, i, elements>>

\* an exception leaves the call at source line `line`
Raise(exc, line) ==
    /\ status' = exc
    /\ raised_at' = line
    /\ pc' = "done"
    /\ UNCHANGED <<args, call, prev, ret>>

\* lines 71-80
SelectPorts ==
    /\ pc = "select"
    /\ IF args.port_labels.given /\ ~LabelsKnown(args.port_labels.val)
       THEN Raise("KeyError", 75) /\ UNCHANGED locals
       ELSE LET filtered == FilterPorts(SelectedPorts(args.port_labels),
                                        args.excluded_ports)
            IN  /\ ports' = filtered
                /\ N' = Len(filtered)
                /\ IF NoPorts(Len(filtered))
                   THEN /\ status' = "returned"
                        /\ ret' = [elements |-> <<>>, pads |-> <<>>, y0 |-> 0]
                        /\ pc' = "done"
                   ELSE /\ pc' = "pad"
                        /\ UNCHANGED <<status, ret>>
                /\ UNCHANGED <<args, call, prev, raised_at, pad_calls, pads, x_c,
                               y0_optical, ordered_ports, nb_ports_per_line, y_sep,
                               offset, pad_indices, j, ref_calls, io_pad_lines,
                               row, i, elements>>

\* lines 82-84
MakePad ==
    /\ pc = "pad"
    /\ elements' = <<>>
    /\ pad_calls' = IF args.pad_is_factory THEN pad_calls + 1 ELSE pad_calls
    /\ pads' = [k \in 1..N |-> PadPrototype]
    /\ pc' = "geometry"
    /\ UNCHANGED <<args, call, prev, status, raised_at, ret, ports, N, x_c,
                   y0_optical, ordered_ports, nb_ports_per_line, y_sep, offset,
                   pad_indices, j, ref_calls, io_pad_lines, row, i>>

\* lines 86-139
Geometry ==
    /\ pc = "geometry"
    /\ IF N = 0
       THEN Raise("ZeroDivisionError", 90) /\ UNCHANGED locals
       ELSE LET K == KOf(Len(ports))
                nb == NbPortsPerLine(N, args.n_ports)
            IN  /\ x_c' = XCenter(ports, N)
                /\ y0_optical' = Y0Optical(K, DefaultFanoutLength,
                                           DefaultStraightSeparation,
                                           args.max_y0_optical)
                /\ ordered_ports' = OrderedPorts(direction_ports_from_list_ports(ports))
                /\ nb_ports_per_line' = nb
                /\ y_sep' = YSep(K, args.n_ports, DefaultStraightSeparation,
                                 DefaultBendRadiusTenths)
                /\ offset' = Offset(nb, args.pad_spacing, args.x_pad_offset)
                /\ io_pad_lines' = <<>>
                /\ pc' = "indices"
                /\ UNCHANGED <<args, call, prev, status, raised_at, ret, ports, N,
                               pad_calls, pads, pad_indices, j, ref_calls, row, i,
                               elements>>

\* line 144 fails
PadIndicesRejected ==
    /\ args.pad_indices.given
    /\ ~PadIndicesAccepted(args.pad_indices.val, nb_ports_per_line)

\* lines 141-143: pad_indices is bound and the loop of line 146 is entered
BindPadIndices ==
    /\ pad_indices' = IF args.pad_indices.given
                      THEN args.pad_indices.val
                      ELSE DefaultPadIndices(nb_ports_per_line)
    /\ j' = 0
    /\ pc' = "rows"
    /\ UNCHANGED <<args, call, prev, status, raised_at, ret, ports, N, pad_calls,
                   pads, x_c, y0_optical, ordered_ports, nb_ports_per_line, y_sep,
                   offset, ref_calls, io_pad_lines, row, i, elements>>

\* variant of ResolvePadIndices: the assert of line 144 moved below the
\* comprehension of lines 147-154, so that a row is placed before it fails
ResolvePadIndicesAfterRow ==
    /\ pc = "indices"
    /\ IF PadIndicesRejected
       THEN /\ Raise("AssertionError", 144)
            /\ pads' = PadRow(args.pad_indices.val, pads, x_c, offset,
                              args.pad_spacing, y0_optical, 0, y_sep, args.n_ports)
            /\ ref_calls' = ref_calls + Min(Len(args.pad_indices.val), Len(pads))
            /\ UNCHANGED <<ports, N, pad_calls, x_c, y0_optical, ordered_ports,
                           nb_ports_per_line, y_sep, offset, pad_indices, j,
                           io_pad_lines, row, i, elements>>
       ELSE BindPadIndices

\* lines 141-144
ResolvePadIndices ==
    /\ pc = "indices"
    /\ IF PadIndicesRejected
       THEN Raise("AssertionError", 144) /\ UNCHANGED locals
       ELSE BindPadIndices

\* lines 146-154, one row; a second row calls ref() of the first row's pads
PlaceRow ==
    /\ pc = "rows"
    /\ j < args.n_ports
    /\ LET pairs == Min(Len(pad_indices), Len(pads))
       IN  IF pairs > 0 /\ pads[1].ref /\ ~args.ref_has_ref
           THEN Raise("AttributeError", 148) /\ UNCHANGED locals
           ELSE /\ pads' = PadRow(pad_indices, pads, x_c, offset, args.pad_spacing,
                                  y0_optical, j, y_sep, args.n_ports)
                /\ ref_calls' = ref_calls + pairs
                /\ j' = j + 1
                /\ pc' = IF j + 1 < args.n_ports THEN "rows" ELSE "collect"
                /\ UNCHANGED <<args, call, prev, status, raised_at, ret, ports, N,
                               pad_calls, x_c, y0_optical, ordered_ports,
                               nb_ports_per_line, y_sep, offset, pad_indices,
                               io_pad_lines, row, i, elements>>

\* line 156, after the loop
CollectRow ==
    /\ pc = "collect"
    /\ io_pad_lines' = Append(io_pad_lines, pads)
    /\ pc' = "override"
    /\ UNCHANGED <<args, call, prev, status, raised_at, ret, ports, N, pad_calls,
                   pads, x_c, y0_optical, ordered_ports, nb_ports_per_line, y_sep,
                   offset, pad_indices, j, ref_calls, row, i, elements>>

\* lines 158-159
Override ==
    /\ pc = "override"
    /\ IF args.connected_port_list_ids # <<>> /\ ~IdsKnown(args.connected_port_list_ids)
       THEN Raise("KeyError", 159) /\ UNCHANGED locals
       ELSE /\ ordered_ports' = IF args.connected_port_list_ids # <<>>
                                THEN LookupPorts(args.connected_port_list_ids, ports)
                                ELSE ordered_ports
            /\ row' = 1
            /\ i' = 0
            /\ pc' = "route"
            /\ UNCHANGED <<args, call, prev, status, raised_at, ret, ports, N,
                           pad_calls, pads, x_c, y0_optical, nb_ports_per_line,
                           y_sep, offset, pad_indices, j, ref_calls, io_pad_lines,
                           elements>>

\* lines 161-166, one pass of the inner loop (N > 0, and there is a row)
Route ==
    /\ pc = "route"
    /\ LET line == io_pad_lines[row]
       IN  IF i + 1 > Len(line)
           THEN Raise("IndexError", 163) /\ pads' = line
                /\ UNCHANGED <<ports, N, pad_calls, x_c, y0_optical, ordered_ports,
                               nb_ports_per_line, y_sep, offset, pad_indices, j,
                               ref_calls, io_pad_lines, row, i, elements>>
           ELSE IF i + 1 > Len(ordered_ports)
           THEN Raise("IndexError", 164) /\ pads' = line
                /\ UNCHANGED <<ports, N, pad_calls, x_c, y0_optical, ordered_ports,
                               nb_ports_per_line, y_sep, offset, pad_indices, j,
                               ref_calls, io_pad_lines, row, i, elements>>
           ELSE /\ pads' = line
                /\ elements' = Append(elements, RouteOf(ordered_ports[i + 1], line[i + 1]))
                /\ IF i + 1 < N
                   THEN i' = i + 1 /\ UNCHANGED <<row, pc>>
                   ELSE /\ i' = 0
                        /\ row' = row + 1
                        /\ pc' = IF row < Len(io_pad_lines) THEN "route" ELSE "return"
                /\ UNCHANGED <<args, call, prev, status, raised_at, ret, ports, N,
                               pad_calls, x_c, y0_optical, ordered_ports,
                               nb_ports_per_line, y_sep, offset, pad_indices, j,
                               ref_calls, io_pad_lines>>

\* line 168
Return ==
    /\ pc = "return"
    /\ status' = "returned"
    /\ ret' = [elements |-> elements, pads |-> io_pad_lines, y0 |-> y0_optical]
    /\ pc' = "done"
    /\ UNCHANGED <<args, call, prev, raised_at, ports, N, pad_calls, pads, x_c,
                   y0_optical, ordered_ports, nb_ports_per_line, y_sep, offset,
                   pad_indices, j, ref_calls, io_pad_lines, row, i, elements>>

Next ==
    \/ SelectPorts
    \/ MakePad
    \/ Geometry
    \/ ResolvePadIndices
    \/ PlaceRow
    \/ CollectRow
    \/ Override
    \/ Route
    \/ Return

Spec == Init /\ [][Next]_vars


(***************************************************************************)
(* A second specification: spacing, x_pad_offset, the y ceiling and the    *)
(* pad source vary, and a finished call is made again with the same        *)
(* arguments except pad_indices = None.                                    *)
(***************************************************************************)
InitRepeat ==
    /\ args \in [port_labels : PortLabelsChoices,
                 excluded_ports : {{}},
                 n_ports : 1..MaxRows,
                 pad_indices : PadIndicesChoices,
                 connected_port_list_ids : {<<>>},
                 pad_spacing : {100, DefaultPadSpacing},
                 x_pad_offset : {-10, DefaultXPadOffset, 25},
                 max_y0_optical : {None, Some(-90)},
                 pad_is_factory : BOOLEAN,
                 ref_has_ref : BOOLEAN]
    /\ call = 1
    /\ prev = NoPrev
    /\ Entry

\* the caller calls route_pad_array once more, with pad_indices = None
CallAgain ==
    /\ pc = "done"
    /\ call = 1
    /\ call' = 2
    /\ prev' = [args |-> args, status |-> status, raised_at |-> raised_at,
                ret |-> ret, elements |-> elements, io_pad_lines |-> io_pad_lines,
                ref_calls |-> ref_calls]
    /\ args' = [args EXCEPT !.pad_indices = None]
    /\ pc' = "select"
    /\ status' = "running"
    /\ raised_at' = 0
    /\ ret' = NoResult
    /\ ports' = <<>>
    /\ N' = 0
    /\ pad_calls' = 0
    /\ pads' = <<>>
    /\ x_c' = 0
    /\ y0_optical' = 0
    /\ ordered_ports' = <<>>
    /\ nb_ports_per_line' = 0
    /\ y_sep' = 0
    /\ offset' = 0
    /\ pad_indices' = <<>>
    /\ j' = 0
    /\ ref_calls' = 0
    /\ io_pad_lines' = <<>>
    /\ row' = 0
    /\ i' = 0
    /\ elements' = <<>>

NextRepeat ==
    \/ SelectPorts
    \/ MakePad
    \/ Geometry
    \/ ResolvePadIndices
    \/ PlaceRow
    \/ CollectRow
    \/ Override
    \/ Route
    \/ Return
    \/ CallAgain

SpecRepeat == InitRepeat /\ [][NextRepeat]_vars


(***************************************************************************)
(* Properties.                                                             *)
(***************************************************************************)
Done == pc = "done"

Returned == pc = "done" /\ status = "returned"

RaisedAt(exc, line) == pc = "done" /\ status = exc /\ raised_at = line

\* the port selection of lines 71-77 succeeds on the call's arguments
SelectionSucceeds ==
    args.port_labels.given => LabelsKnown(args.port_labels.val)

\* the explicit pad_indices, if any, has the length line 144 asks for
PadIndicesFit ==
    args.pad_indices.given => Len(args.pad_indices.val) = N \div args.n_ports

Identity(n) == [k \in 1..n |-> k - 1]

BagOfSeq(s) ==
    [e \in {s[k] : k \in 1..Len(s)} |-> Cardinality({k \in 1..Len(s) : s[k] = e})]

\* the perimeter walk as the specification words it, from the buckets
PerimeterWalk(ps) ==
    LET dp == direction_ports_from_list_ports(ps)
        m == Len(dp.N)
        first_half == [k \in 1..(m \div 2) |-> dp.N[k]]
        second_half == [k \in 1..(m - m \div 2) |-> dp.N[m \div 2 + k]]
    IN  Reverse(first_half) \o Reverse(dp.W) \o dp.S \o dp.E \o Reverse(second_half)

(* C1, as stated: whenever a call with a non-empty filtered port list      *)
(* returns, the first returned pad row has as many pads as the ordered     *)
(* port sequence used for pairing has ports, and all rows are equally long.*)
C1_RowLengthEqualsSequenceLength ==
    (Returned /\ N > 0) =>
        /\ Len(ret.pads) >= 1
        /\ Len(ret.pads[1]) = Len(ordered_ports)
        /\ \A r \in 1..Len(ret.pads) : Len(ret.pads[r]) = Len(ret.pads[1])

(* C1, amended: whenever such a call returns, every returned pad row has   *)
(* exactly N pads; the ordered port sequence has N ports when it is the    *)
(* computed one, and len(override) >= N ports when an override replaced it.*)
C1_RowLengthIsN ==
    (Returned /\ N > 0) =>
        /\ Len(ret.pads) >= 1
        /\ \A r \in 1..Len(ret.pads) : Len(ret.pads[r]) = N
        /\ IF args.connected_port_list_ids = <<>>
           THEN Len(ordered_ports) = N
           ELSE /\ Len(ordered_ports) = Len(args.connected_port_list_ids)
                /\ Len(ordered_ports) >= N

\* a call returns although its override list is longer than the pad row
C1_Witness ==
    /\ Returned
    /\ N > 0
    /\ Len(args.connected_port_list_ids) > N
    /\ Len(ret.pads[1]) = N

(* C2: with n_ports = 1 and no override, the k-th call of the route        *)
(* constructor connects the k-th pad of the row to the k-th port of        *)
(* reverse(north[0 : m//2]) + reverse(west) + south + east +               *)
(* reverse(north[m//2 :]); a call whose labels and pad_indices are valid   *)
(* returns after exactly N such calls, so every filtered port is routed    *)
(* exactly as often as it was selected.                                    *)
C2_SingleRowPerimeterPairing ==
    (args.n_ports = 1 /\ args.connected_port_list_ids = <<>>) =>
        /\ \A k \in 1..Len(elements) :
              elements[k] = RouteOf(PerimeterWalk(ports)[k], io_pad_lines[1][k])
        /\ (Done /\ SelectionSucceeds /\ PadIndicesFit) => Returned
        /\ Returned =>
              /\ ret.elements = elements
              /\ Len(elements) = N
              /\ BagOfSeq([k \in 1..Len(elements) |-> elements[k].p1]) = BagOfSeq(ports)

\* all ten electrical ports, every bucket populated, are routed in one row
C2_Witness ==
    /\ Returned
    /\ args.n_ports = 1
    /\ args.connected_port_list_ids = <<>>
    /\ N = 10
    /\ Len(ret.elements) = 10
    /\ ret.elements[1].p1.name = "n2"
    /\ ret.elements[10].p1.name = "n3"

(* C3, as stated: when N is not divisible by n_ports the call raises no    *)
(* error; it returns with N // n_ports pads per row, the remainder ports   *)
(* being left out of the pairing.  (Taken where a placed pad offers ref(), *)
(* so that the rows of line 146 can all be placed.)                        *)
C3_RemainderSilentlyDropped ==
    (Done /\ N > 0 /\ N % args.n_ports # 0 /\ SelectionSucceeds /\ args.ref_has_ref
          /\ ~args.pad_indices.given /\ args.connected_port_list_ids = <<>>) =>
        /\ status = "returned"
        /\ Len(ret.pads[1]) = N \div args.n_ports
        /\ Len(ret.elements) = N \div args.n_ports

(* C4, as stated: for n_ports > 1 dividing N the call completes and pairs  *)
(* only the last constructed row, pad k of that row with ordered_ports[k]. *)
(* (Taken where a placed pad offers ref(), so that the rows of line 146    *)
(* can all be placed.)                                                     *)
C4_LastRowPaired ==
    (Done /\ N > 0 /\ args.n_ports > 1 /\ N % args.n_ports = 0 /\ SelectionSucceeds
          /\ args.ref_has_ref
          /\ ~args.pad_indices.given /\ args.connected_port_list_ids = <<>>) =>
        /\ status = "returned"
        /\ Len(ret.pads) = 1
        /\ Len(ret.elements) = N \div args.n_ports
        /\ \A k \in 1..(N \div args.n_ports) :
              ret.elements[k] = RouteOf(ordered_ports[k], ret.pads[1][k])

FatalFailure ==
    \/ RaisedAt("KeyError", 75)
    \/ RaisedAt("AssertionError", 144)
    \/ RaisedAt("KeyError", 159)

(* C5, as stated: on an unknown port label, an unknown connection id or a  *)
(* pad_indices length mismatch the call aborts before any pad instance has *)
(* been placed and before the route constructor has been invoked.          *)
C5_NothingProducedOnFailure ==
    FatalFailure => (ref_calls = 0 /\ elements = <<>>)

(* C5, amended: on an unknown port label or a pad_indices length mismatch  *)
(* the call aborts before any pad instance has been placed and before the  *)
(* route constructor has been invoked; on an unknown connection id it      *)
(* aborts before the route constructor has been invoked, the pad rows      *)
(* having been placed already.                                             *)
C5_NoRouteOnFailure ==
    /\ RaisedAt("KeyError", 75) => (pad_calls = 0 /\ ref_calls = 0 /\ elements = <<>>)
    /\ RaisedAt("AssertionError", 144) => (ref_calls = 0 /\ elements = <<>>)
    /\ RaisedAt("KeyError", 159) =>
          /\ elements = <<>>
          /\ Len(io_pad_lines) = 1
          /\ ref_calls = args.n_ports * (N \div args.n_ports)

\* the override lookup fails with pads already placed
C5_Witness ==
    /\ RaisedAt("KeyError", 159)
    /\ ref_calls > 0
    /\ elements = <<>>

(* C6: with a non-empty filtered port list, an explicit pad_indices whose  *)
(* length differs from N // n_ports makes the call fail with the assertion *)
(* of line 144, no pad placed and no route built.                          *)
C6_PadIndicesMismatchFails ==
    (Done /\ N > 0 /\ args.pad_indices.given
          /\ Len(args.pad_indices.val) # N \div args.n_ports) =>
        /\ status = "AssertionError"
        /\ raised_at = 144
        /\ ref_calls = 0
        /\ elements = <<>>

\* a call fails on a pad_indices list that is too short for its row
C6_Witness ==
    /\ RaisedAt("AssertionError", 144)
    /\ N > 0
    /\ args.pad_indices.given
    /\ Len(args.pad_indices.val) < N \div args.n_ports

\* the arguments select no port at all
EmptySelection ==
    /\ SelectionSucceeds
    /\ FilterPorts(SelectedPorts(args.port_labels), args.excluded_ports) = <<>>

(* C7: when the filtered port list is empty the call returns ([], [], 0):  *)
(* the pad factory is not called, no pad is placed, no route is built, and *)
(* neither pad_indices nor the override list is looked at.                 *)
C7_EmptyShortCircuit ==
    EmptySelection =>
        /\ pc \in {"select", "done"}
        /\ pad_calls = 0
        /\ ref_calls = 0
        /\ elements = <<>>
        /\ Done => (status = "returned" /\ raised_at = 0
                    /\ ret = [elements |-> <<>>, pads |-> <<>>, y0 |-> 0])

\* an empty selection returns although pad_indices cannot fit and the
\* override names an unknown port
C7_Witness ==
    /\ Returned
    /\ N = 0
    /\ args.pad_is_factory
    /\ args.pad_indices.given
    /\ Len(args.pad_indices.val) > 0
    /\ \E k \in 1..Len(args.connected_port_list_ids) :
          args.connected_port_list_ids[k] \notin PortNames

\* the rows of pads placed so far
PlacedRows ==
    IF pc = "rows" /\ j > 0 THEN <<pads>>
    ELSE IF pc = "collect" THEN <<pads>>
    ELSE io_pad_lines

(* C8, as stated: the x-positions of a row's pads form an arithmetic       *)
(* sequence with common difference spacing, and the midpoint of the first  *)
(* and the last pad x is x_center - x_pad_offset.                          *)
C8_CenteredMinusOffset ==
    \A r \in 1..Len(PlacedRows) :
        LET line == PlacedRows[r]
        IN  Len(line) > 0 =>
              /\ \A k \in 1..(Len(line) - 1) :
                    line[k + 1].x - line[k].x = 20 * args.pad_spacing
              /\ line[1].x + line[Len(line)].x = 2 * (2 * x_c - 20 * args.x_pad_offset)

(* C8, amended: pad k of a row sits at                                     *)
(* x_center + x_pad_offset - (nb - 1) * spacing / 2 + pad_indices[k] *     *)
(* spacing; with the default (identity) pad_indices the x-positions form   *)
(* an arithmetic sequence with common difference spacing whose midpoint is *)
(* x_center + x_pad_offset.                                                *)
C8_CenteredPlusOffset ==
    \A r \in 1..Len(PlacedRows) :
        LET line == PlacedRows[r]
        IN  Len(line) > 0 =>
              /\ \A k \in 1..Len(line) :
                    line[k].x = 2 * x_c + 20 * args.x_pad_offset
                                - 10 * (N \div args.n_ports - 1) * args.pad_spacing
                                + 20 * pad_indices[k] * args.pad_spacing
              /\ pad_indices = Identity(N \div args.n_ports) =>
                    /\ \A k \in 1..(Len(line) - 1) :
                          line[k + 1].x - line[k].x = 20 * args.pad_spacing
                    /\ line[1].x + line[Len(line)].x
                          = 2 * (2 * x_c + 20 * args.x_pad_offset)

\* a returned row of two pads or more, shifted by a non-zero x_pad_offset
C8_Witness ==
    /\ Returned
    /\ Len(ret.pads) = 1
    /\ Len(ret.pads[1]) >= 2
    /\ args.x_pad_offset # 0
    /\ pad_indices = Identity(N)

(* C9: a call with pad_indices equal to the identity 0..nb-1 and the call  *)
(* with pad_indices = None, all else equal, end alike: the same outcome,   *)
(* the same pads at the same positions, the same routes, the same y.       *)
C9_IdentityEqualsDefault ==
    (call = 2 /\ Done /\ prev.args.pad_indices.given
         /\ prev.args.pad_indices.val = Identity(N \div args.n_ports)) =>
        /\ status = prev.status
        /\ raised_at = prev.raised_at
        /\ ret = prev.ret
        /\ io_pad_lines = prev.io_pad_lines
        /\ elements = prev.elements
        /\ ref_calls = prev.ref_calls

\* both calls returned, the first with the explicit identity of two slots
C9_Witness ==
    /\ call = 2
    /\ Returned
    /\ prev.args.pad_indices = Some(<<0, 1>>)
    /\ Len(ret.pads) = 1
    /\ Len(ret.pads[1]) = 2
    /\ Len(ret.elements) = 2

(* C10: with a non-empty override list the k-th route connects the k-th    *)
(* pad of the row to component.ports[override[k]], whether or not that     *)
(* port was selected; the row still has N // n_ports pads; a one-row call  *)
(* with valid arguments and at least N ids returns after N routes.         *)
C10_OverridePairing ==
    args.connected_port_list_ids # <<>> =>
        /\ \A k \in 1..Len(elements) :
              elements[k] = RouteOf(PortOf(args.connected_port_list_ids[k]),
                                    io_pad_lines[1][k])
        /\ \A r \in 1..Len(io_pad_lines) :
              Len(io_pad_lines[r]) = N \div args.n_ports
        /\ (Done /\ N > 0 /\ args.n_ports = 1 /\ SelectionSucceeds /\ PadIndicesFit
                 /\ IdsKnown(args.connected_port_list_ids)
                 /\ Len(args.connected_port_list_ids) >= N) =>
              (status = "returned" /\ ret.elements = elements /\ Len(elements) = N)

\* two selected ports are routed from two ports that were not selected
C10_Witness ==
    /\ Returned
    /\ N = 2
    /\ args.connected_port_list_ids = <<"o1", "s1">>
    /\ \A k \in 1..N : ports[k].name \notin {"o1", "s1"}
    /\ ret.elements[1].p1.name = "o1"
    /\ ret.elements[2].p1.name = "s1"

====
